---- MODULE Spec2Model ----
(***************************************************************************)
(* Model of scripts/package_skill.py: the skill packager.                  *)
(*                                                                         *)
(* The filesystem is a function from absolute paths to nodes.  A path is   *)
(* a sequence of components; a component is the pair (stem, suffix) that   *)
(* pathlib splits a file name into, so that `name` is stem \o suffix and   *)
(* `suffix` is the second field.  A node is a directory or a regular file  *)
(* holding data; data is a token text plus, for a zip file, its entries.   *)
(***************************************************************************)
EXTENDS Integers, Sequences, FiniteSets, TLC

VARIABLES
    fs,     \* the filesystem
    cwd,    \* Path.cwd() of the invocations
    pc,     \* "idle" before an invocation, "done" after one
    run,    \* the last invocation: its arguments, pre-state and outcome
    hist,   \* one summary per finished invocation, oldest first
    edits   \* number of source edits made

vars == <<fs, cwd, pc, run, hist, edits>>

(* ----------------------------- bounds ---------------------------------- *)
\* largest number of candidate files a source tree holds at once
MaxFiles == 2
\* number of CLI invocations in one behaviour
MaxRuns == 2
\* number of source edits between invocations
MaxEdits == 1

(* ------------------------- names and paths ----------------------------- *)
N(stem, suffix) == [stem |-> stem, suffix |-> suffix]

\* PurePath.name
name(c) == c.stem \o c.suffix

\* PurePath.suffix of the last component
suffix(p) == p[Len(p)].suffix

\* PurePath.parts, as the set of component names ("x" in file_path.parts)
parts(p) == {name(p[i]) : i \in 1..Len(p)}

IsPrefix(a, b) == Len(a) <= Len(b) /\ SubSeq(b, 1, Len(a)) = a

\* PurePath.relative_to
relative_to(p, base) == SubSeq(p, Len(base) + 1, Len(p))

\* PurePath.parent
parent(p) == SubSeq(p, 1, Len(p) - 1)

Prefixes(p) == {SubSeq(p, 1, i) : i \in 1..Len(p)}

(* ------------------------------- data ---------------------------------- *)
Text(toks) == [text |-> toks, entries |-> {}]

\* a zip file: its entries are pairs <<arcname, data>>
Zip(ents) == [text |-> <<"PK">>, entries |-> ents]

Dir == [kind |-> "dir"]
File(d) == [kind |-> "file", data |-> d]

(* ------------------------ filesystem primitives ------------------------ *)
\* Path.exists
exists(f, p) == p = <<>> \/ p \in DOMAIN f

\* Path.is_dir
is_dir(f, p) == p = <<>> \/ (p \in DOMAIN f /\ f[p].kind = "dir")

\* Path.is_file
is_file(f, p) == p \in DOMAIN f /\ f[p].kind = "file"

Put(f, p, node) == [q \in DOMAIN f \cup {p} |-> IF q = p THEN node ELSE f[q]]

\* Path.mkdir(parents=True, exist_ok=True): raises when the path or one of
\* its ancestors is a regular file, else creates every missing directory
mkdir(f, p) ==
    IF \E q \in Prefixes(p) : is_file(f, q)
    THEN [ok |-> FALSE, fs |-> f]
    ELSE [ok |-> TRUE,
          fs |-> [q \in DOMAIN f \cup Prefixes(p) |->
                     IF q \in DOMAIN f THEN f[q] ELSE Dir]]

\* shutil.rmtree: raises on something that is not a directory, else removes
\* the directory and everything beneath it
rmtree(f, p) ==
    IF ~is_dir(f, p)
    THEN [ok |-> FALSE, fs |-> f]
    ELSE [ok |-> TRUE,
          fs |-> [q \in {r \in DOMAIN f : ~IsPrefix(p, r)} |-> f[q]]]

\* open(p, "w") / ZipFile(p, "w") / shutil.copy2 onto p: raises when the
\* parent is not a directory or p is a directory, else (over)writes p
write_file(f, p, d) ==
    IF ~is_dir(f, parent(p)) \/ is_dir(f, p)
    THEN [ok |-> FALSE, fs |-> f]
    ELSE [ok |-> TRUE, fs |-> Put(f, p, File(d))]

\* open(p, "r").read(): raises unless p is a regular file
readable(f, p) == is_file(f, p)

\* Path.rglob('*'): every entry strictly beneath root
rglob(f, root) == {p \in DOMAIN f : Len(p) > Len(root) /\ IsPrefix(root, p)}

\* the regular files beneath root
FilesUnder(f, root) == {p \in rglob(f, root) : is_file(f, p)}

(* -------------------------------- json --------------------------------- *)
\* a JSON text is a token sequence; an object of n >= 1 pairs is
\* "{" k ":" v ("," k ":" v)* "}", of Len 4n+1
IsObject(t) ==
    /\ Len(t) >= 2
    /\ t[1] = "{"
    /\ t[Len(t)] = "}"
    /\ \/ Len(t) = 2
       \/ /\ Len(t) % 4 = 1
          /\ \A i \in 2..(Len(t) - 1) :
                /\ (i % 4 = 3 => t[i] = ":")
                /\ (i % 4 = 1 => t[i] = ",")
                /\ (i % 4 \in {0, 2} => t[i] \notin {"{", "}", "[", "]", ":", ","})

IsArray(t) == t = <<"[", "]">>

Keys(t) == {t[i] : i \in {j \in 2..(Len(t) - 1) : j % 4 = 2}}

\* the value of the last pair with key k
ValueOf(t, k) ==
    LET is == {j \in 2..(Len(t) - 1) : j % 4 = 2 /\ t[j] = k}
        last == CHOOSE j \in is : \A m \in is : m <= j
    IN t[last + 2]

\* json.load: raises on a text that is no JSON value, else the parsed value
json_load(d) ==
    IF IsObject(d.text)
    THEN [ok |-> TRUE, isdict |-> TRUE,
          fields |-> [k \in Keys(d.text) |-> ValueOf(d.text, k)]]
    ELSE IF IsArray(d.text)
    THEN [ok |-> TRUE, isdict |-> FALSE, fields |-> [k \in {} |-> ""]]
    ELSE [ok |-> FALSE, isdict |-> FALSE, fields |-> [k \in {} |-> ""]]

\* json.dump(package_info) of the generated manifest
json_dump(version) ==
    Text(<<"{", "name", ":", "wellog-viz-skill", ",",
           "version", ":", version, ",",
           "description", ":",
           "Wellog Visualisation Skill Documentation and Patterns", ",",
           "private", ":", "true", "}">>)

(* ---------------------------- package_skill ---------------------------- *)
DefaultVersion == "1.0.0"

BUILD == N("build", "")
SKILL_MD == N("SKILL", ".md")
PACKAGE_JSON == N("package", ".json")

\* a command-line path argument: absolute or relative to the working directory
Arg(abs, ps) == [abs |-> abs, parts |-> ps]

\* output_dir=None
None == [abs |-> FALSE, parts |-> <<>>]

\* Path(x).resolve()
resolve(wd, a) == IF a.abs THEN a.parts ELSE wd \o a.parts

\* preconditions with the SKILL.md check made before the directory check
preconditions_swapped(f, skill_path, valid) ==
    IF ~exists(f, skill_path)
    THEN [failed |-> "folder not found", ran |-> <<"exists">>]
    ELSE IF ~exists(f, skill_path \o <<SKILL_MD>>)
    THEN [failed |-> "SKILL.md not found",
          ran |-> <<"exists", "skill_md">>]
    ELSE IF ~is_dir(f, skill_path)
    THEN [failed |-> "not a directory",
          ran |-> <<"exists", "skill_md", "is_dir">>]
    ELSE IF ~valid
    THEN [failed |-> "validation failed",
          ran |-> <<"exists", "skill_md", "is_dir", "validate">>]
    ELSE [failed |-> "none",
          ran |-> <<"exists", "skill_md", "is_dir", "validate">>]

\* preconditions that ask the Validator and go on whatever it answers
preconditions_unheeded(f, skill_path, valid) ==
    IF ~exists(f, skill_path)
    THEN [failed |-> "folder not found", ran |-> <<"exists">>]
    ELSE IF ~is_dir(f, skill_path)
    THEN [failed |-> "not a directory", ran |-> <<"exists", "is_dir">>]
    ELSE IF ~exists(f, skill_path \o <<SKILL_MD>>)
    THEN [failed |-> "SKILL.md not found",
          ran |-> <<"exists", "is_dir", "skill_md">>]
    ELSE [failed |-> "none",
          ran |-> <<"exists", "is_dir", "skill_md", "validate">>]

\* the four checks of lines 28-48, in order; `ran` lists the checks made
preconditions(f, skill_path, valid) ==
    IF ~exists(f, skill_path)
    THEN [failed |-> "folder not found", ran |-> <<"exists">>]
    ELSE IF ~is_dir(f, skill_path)
    THEN [failed |-> "not a directory", ran |-> <<"exists", "is_dir">>]
    ELSE IF ~exists(f, skill_path \o <<SKILL_MD>>)
    THEN [failed |-> "SKILL.md not found",
          ran |-> <<"exists", "is_dir", "skill_md">>]
    ELSE IF ~valid
    THEN [failed |-> "validation failed",
          ran |-> <<"exists", "is_dir", "skill_md", "validate">>]
    ELSE [failed |-> "none",
          ran |-> <<"exists", "is_dir", "skill_md", "validate">>]

\* discover_version that never reads package.json
discover_version_default(f, skill_path) ==
    [version |-> DefaultVersion, warned |-> FALSE]

\* lines 55-64: the version, and whether the warning was printed
discover_version(f, skill_path) ==
    LET root_package_json == skill_path \o <<PACKAGE_JSON>>
    IN IF ~exists(f, root_package_json)
       THEN [version |-> DefaultVersion, warned |-> FALSE]
       ELSE IF ~readable(f, root_package_json)
       THEN [version |-> DefaultVersion, warned |-> TRUE]
       ELSE LET root_info == json_load(f[root_package_json].data)
            IN IF ~root_info.ok \/ ~root_info.isdict
               THEN [version |-> DefaultVersion, warned |-> TRUE]
               ELSE IF "version" \in DOMAIN root_info.fields
               THEN [version |-> root_info.fields["version"], warned |-> FALSE]
               ELSE [version |-> DefaultVersion, warned |-> FALSE]

\* lines 66-70
resolve_output(f, wd, output_dir) ==
    IF output_dir # None
    THEN LET output_path == resolve(wd, output_dir)
             m == mkdir(f, output_path)
         IN [ok |-> m.ok, fs |-> m.fs, output_path |-> output_path]
    ELSE [ok |-> TRUE, fs |-> f, output_path |-> wd]

\* the build directory under another name
build_dir_dist(skill_path) == skill_path \o <<[stem |-> "dist", suffix |-> ""]>>

\* line 73
build_dir(skill_path) == skill_path \o <<BUILD>>

\* prepare_build without the rmtree of lines 74-75
prepare_build_keep(f, skill_path) == mkdir(f, build_dir(skill_path))

\* lines 74-76
prepare_build(f, skill_path) ==
    LET b == build_dir(skill_path)
    IN IF exists(f, b)
       THEN LET r == rmtree(f, b)
            IN IF r.ok THEN mkdir(r.fs, b) ELSE r
       ELSE mkdir(f, b)

\* line 80: the file name ends in ".skill", which is its pathlib suffix
skill_filename(output_path, skill_name, version) ==
    output_path \o <<N(skill_name \o "-" \o version, ".skill")>>

\* ignored without lines 109-111 (upstream-src)
ignored_no_upstream(file_path) ==
    \/ "rules" \in parts(file_path)
    \/ ".git" \in parts(file_path)
    \/ "__pycache__" \in parts(file_path)
    \/ ".trae" \in parts(file_path)
    \/ name(file_path[Len(file_path)]) = "feedback_logs.jsonl"
    \/ "skill-creator" \in parts(file_path)
    \/ "build" \in parts(file_path)
    \/ name(file_path[Len(file_path)])
          \in {"package_skill.py", "init_skill.py", "quick_validate.py"}
    \/ name(file_path[Len(file_path)]) \in {".gitignore", ".gitmodules"}
    \/ suffix(file_path) = ".skill"

\* lines 88-115: the entries the walk skips
ignored(file_path) ==
    \/ "rules" \in parts(file_path)
    \/ ".git" \in parts(file_path)
    \/ "__pycache__" \in parts(file_path)
    \/ ".trae" \in parts(file_path)
    \/ name(file_path[Len(file_path)]) = "feedback_logs.jsonl"
    \/ "skill-creator" \in parts(file_path)
    \/ "build" \in parts(file_path)
    \/ name(file_path[Len(file_path)])
          \in {"package_skill.py", "init_skill.py", "quick_validate.py"}
    \/ name(file_path[Len(file_path)]) \in {".gitignore", ".gitmodules"}
    \/ "upstream-src" \in parts(file_path)
    \/ suffix(file_path) = ".skill"

\* add_file copying to build/ under the archive name, skill-folder name
\* included
add_file_arcname(acc, file_path, skill_path) ==
    IF ~is_file(acc.fs, file_path)
    THEN acc
    ELSE LET arcname == relative_to(file_path, parent(skill_path))
             dest_path == (skill_path \o <<[stem |-> "build", suffix |-> ""]>>)
                             \o arcname
             zipped == [acc EXCEPT !.entries =
                           @ \cup {<<arcname, acc.fs[file_path].data>>}]
             m == mkdir(acc.fs, parent(dest_path))
             c == write_file(m.fs, dest_path, acc.fs[file_path].data)
         IN IF ~m.ok
            THEN [zipped EXCEPT !.ok = FALSE]
            ELSE IF ~c.ok
            THEN [zipped EXCEPT !.ok = FALSE, !.fs = m.fs]
            ELSE [zipped EXCEPT !.fs = c.fs, !.copied = @ \cup {arcname}]

\* lines 117-126 for one entry of the walk: acc carries the filesystem,
\* the entries written to the zip so far and the files copied so far
add_file(acc, file_path, skill_path) ==
    IF ~is_file(acc.fs, file_path)
    THEN acc
    ELSE LET arcname == relative_to(file_path, parent(skill_path))
             rel_path == relative_to(file_path, skill_path)
             dest_path == build_dir(skill_path) \o rel_path
             zipped == [acc EXCEPT !.entries =
                           @ \cup {<<arcname, acc.fs[file_path].data>>}]
             m == mkdir(acc.fs, parent(dest_path))
             c == write_file(m.fs, dest_path, acc.fs[file_path].data)
         IN IF ~m.ok
            THEN [zipped EXCEPT !.ok = FALSE]
            ELSE IF ~c.ok
            THEN [zipped EXCEPT !.ok = FALSE, !.fs = m.fs]
            ELSE [zipped EXCEPT !.fs = c.fs, !.copied = @ \cup {rel_path}]

\* lines 86-128: the walk over the entries found when it starts; it stops at
\* the first exception.  The order of rglob is the directory order, which
\* the result does not depend on: every entry is handled on its own, and
\* what the walk itself creates lies under build/ and is skipped
RECURSIVE walk(_, _, _)
walk(acc, todo, skill_path) ==
    IF todo = {} \/ ~acc.ok
    THEN acc
    ELSE LET file_path == CHOOSE p \in todo : TRUE
         IN walk(IF ignored(file_path)
                 THEN acc
                 ELSE add_file(acc, file_path, skill_path),
                 todo \ {file_path}, skill_path)

\* lines 83-148: the archive, the mirror and the manifest; an exception
\* leaves what was written and closes the zip with the entries so far
write_phase(f, skill_path, archive, version) ==
    LET z == write_file(f, archive, Zip({}))
    IN IF ~z.ok
       THEN [ok |-> FALSE, fs |-> f, entries |-> {}, copied |-> {}]
       ELSE LET w == walk([ok |-> TRUE, fs |-> z.fs, entries |-> {},
                           copied |-> {}],
                          rglob(z.fs, skill_path), skill_path)
                closed == [w EXCEPT !.fs = Put(w.fs, archive,
                                               File(Zip(w.entries)))]
                j == write_file(closed.fs,
                                build_dir(skill_path) \o <<PACKAGE_JSON>>,
                                json_dump(version))
            IN IF ~closed.ok
               THEN closed
               ELSE [closed EXCEPT !.ok = j.ok, !.fs = j.fs]

NoResult == [ok |-> FALSE, path |-> <<>>]

\* what one call of package_skill leaves behind: the filesystem, whether an
\* exception escaped, the returned value, the reported error, and the
\* trace of the call (checks made, the Validator's verdict if it was asked,
\* last stage entered, version, output directory, archive, files written)
Outcome(f, raised, result, pre, error, stage, version, verdict, o, archive, w) ==
    [fs |-> f, raised |-> raised, result |-> result, checks |-> pre.ran,
     error |-> error, stage |-> stage, version |-> version,
     verdict |-> verdict, output_dir |-> o.output_dir,
     output_path |-> o.output_path, archive |-> archive,
     entries |-> w.entries, copied |-> w.copied]

Nothing == [entries |-> {}, copied |-> {}]

\* lines 21-148
package_skill(f, wd, skill_arg, output_dir, valid) ==
    LET skill_path == resolve(wd, skill_arg)
        pre == preconditions(f, skill_path, valid)
        verdict == IF Len(pre.ran) = 4
                   THEN (IF valid THEN "valid" ELSE "invalid")
                   ELSE "not asked"
    IN IF pre.failed # "none"
       THEN Outcome(f, FALSE, NoResult, pre, pre.failed, "precheck", "",
                    verdict, [output_dir |-> None, output_path |-> <<>>],
                    <<>>, Nothing)
       ELSE
       LET skill_name == name(skill_path[Len(skill_path)])
           v == discover_version(f, skill_path)
           r == resolve_output(f, wd, output_dir)
           o == [output_dir |-> output_dir, output_path |-> r.output_path]
       IN IF ~r.ok
          THEN Outcome(r.fs, TRUE, NoResult, pre, "traceback", "output",
                       v.version, verdict, o, <<>>, Nothing)
          ELSE
          LET b == prepare_build(r.fs, skill_path)
          IN IF ~b.ok
             THEN Outcome(b.fs, TRUE, NoResult, pre, "traceback", "build",
                          v.version, verdict, o, <<>>, Nothing)
             ELSE
             LET archive == skill_filename(r.output_path, skill_name,
                                           v.version)
                 w == write_phase(b.fs, skill_path, archive, v.version)
             IN IF ~w.ok
                THEN Outcome(w.fs, FALSE, NoResult, pre, "archive error",
                             "write", v.version, verdict, o, archive, w)
                ELSE Outcome(w.fs, FALSE, [ok |-> TRUE, path |-> archive],
                             pre, "none", "done", v.version, verdict, o,
                             archive, w)

\* lines 169-172: the exit status for what package_skill did (an escaped
\* exception ends the interpreter with status 1)
exit_status(r) ==
    [called |-> TRUE,
     exit |-> IF r.raised THEN 1 ELSE IF r.result.ok THEN 0 ELSE 1,
     fs |-> r.fs, r |-> r]

\* lines 151-172: argv is sys.argv[1:]
main(f, wd, argv, valid) ==
    IF Len(argv) < 1
    THEN [called |-> FALSE, exit |-> 1, fs |-> f]
    ELSE exit_status(package_skill(f, wd, argv[1],
                                   IF Len(argv) > 1 THEN argv[2] ELSE None,
                                   valid))

(* --------------------------- the environment --------------------------- *)
WORK == N("work", "")
MYSKILL == N("myskill", "")
DIST == N("dist", "")

\* the working directories tried: an ordinary one, and one named "build"
Cwds == {<<WORK>>, <<BUILD>>}

\* the skill folder, a child of the working directory
SkillRoot(wd) == wd \o <<MYSKILL>>

Cand(p, toks) == [path |-> p, data |-> Text(toks)]

\* the files the source trees of the multi-run behaviours are drawn from,
\* relative to the skill folder
CoreCandidates ==
    { Cand(<<PACKAGE_JSON>>, <<"{", "version", ":", "2.3.1", "}">>),
      Cand(<<N("a", ".txt")>>, <<"a">>),
      Cand(<<N("docs", ""), N("b", ".md")>>, <<"b">>),
      Cand(<<BUILD, N("stale", ".txt")>>, <<"stale">>) }

\* the files the source trees of the one-run behaviours are drawn from
Candidates ==
    CoreCandidates \cup
    { Cand(<<PACKAGE_JSON>>, <<"{", "name", ":", "x", "}">>),
      Cand(<<PACKAGE_JSON>>, <<"[", "]">>),
      Cand(<<PACKAGE_JSON>>, <<"{", "version">>),
      Cand(<<PACKAGE_JSON, N("inner", ".txt")>>, <<"inner">>),
      Cand(<<BUILD>>, <<"not a directory">>),
      Cand(<<N("old", ".skill")>>, <<"PK">>),
      Cand(<<N("rules", ""), N("r", ".md")>>, <<"r">>),
      Cand(<<N(".git", ""), N("config", "")>>, <<"g">>),
      Cand(<<N("docs", ""), N("__pycache__", ""), N("m", ".pyc")>>, <<"m">>),
      Cand(<<N(".trae", ""), N("t", ".md")>>, <<"t">>),
      Cand(<<N("skill-creator", ""), N("s", ".md")>>, <<"s">>),
      Cand(<<N("upstream-src", ""), N("u", ".md")>>, <<"u">>),
      Cand(<<N("feedback_logs", ".jsonl")>>, <<"log">>),
      Cand(<<N(".gitignore", "")>>, <<"ignore">>),
      Cand(<<N(".gitmodules", "")>>, <<"modules">>),
      Cand(<<N("scripts", ""), N("package_skill", ".py")>>, <<"pkg">>),
      Cand(<<N("scripts", ""), N("init_skill", ".py")>>, <<"init">>),
      Cand(<<N("scripts", ""), N("quick_validate", ".py")>>, <<"qv">>) }

SkillMd == Cand(<<SKILL_MD>>, <<"skill">>)

\* two candidates that cannot be in one tree: one path is a prefix of the other
Clash(c, d) == IsPrefix(c.path, d.path) \/ IsPrefix(d.path, c.path)

\* the clash-free subsets of S of at most n files
RECURSIVE UpTo(_, _)
UpTo(S, n) ==
    IF n = 0
    THEN {{}}
    ELSE LET less == UpTo(S, n - 1)
         IN less \cup UNION {{T \cup {c} :
                                c \in {d \in S : \A e \in T : ~Clash(d, e)}} :
                             T \in less}

\* the source trees over S: at most MaxFiles files, with or without SKILL.md
Trees(S) == UNION {{T, T \cup {SkillMd}} : T \in UpTo(S, MaxFiles)}

\* the filesystem holding the working directory, the skill folder and tree T
Plant(wd, T) ==
    LET root == SkillRoot(wd)
        files == {root \o c.path : c \in T}
        dirs == Prefixes(root) \cup
                UNION {Prefixes(parent(q)) : q \in files}
    IN [q \in files \cup dirs |->
           IF q \in files
           THEN File((CHOOSE c \in T : root \o c.path = q).data)
           ELSE Dir]

\* the candidate files now in the skill folder
Present(f, wd) ==
    {c \in Candidates : is_file(f, SkillRoot(wd) \o c.path)}

SkillArgs ==
    { Arg(FALSE, <<MYSKILL>>),
      Arg(FALSE, <<N("nope", "")>>),
      Arg(FALSE, <<MYSKILL, SKILL_MD>>) }

OutputArgs ==
    { Arg(TRUE, <<WORK, DIST>>),
      Arg(FALSE, <<MYSKILL, DIST>>),
      Arg(FALSE, <<MYSKILL, BUILD>>),
      Arg(FALSE, <<MYSKILL, BUILD, N("out", "")>>),
      Arg(FALSE, <<MYSKILL, SKILL_MD>>) }

Argvs ==
    {<<>>} \cup {<<a>> : a \in SkillArgs}
           \cup {<<a, o>> : a \in SkillArgs, o \in OutputArgs}

NoRun == [called |-> FALSE, exit |-> 0]

(* ------------------------------ the machine ---------------------------- *)
Init ==
    /\ cwd = <<WORK>>
    /\ \E T \in Trees(CoreCandidates) : fs = Plant(cwd, T)
    /\ pc = "idle"
    /\ run = NoRun
    /\ hist = <<>>
    /\ edits = 0

\* one CLI invocation, from the argument vector to the exit status; the
\* Validator's verdict is an input
Run(argv, valid) ==
    /\ Len(hist) < MaxRuns
    /\ \E m \in {main(fs, cwd, argv, valid)} :
          /\ fs' = m.fs
          /\ run' = IF m.called
                    THEN [called |-> TRUE, exit |-> m.exit, r |-> m.r,
                          skill_path |-> resolve(cwd, argv[1]), pre |-> fs]
                    ELSE [called |-> FALSE, exit |-> m.exit]
          /\ hist' = Append(hist,
                       IF m.called
                       THEN [ok |-> m.r.result.ok,
                             skill_path |-> resolve(cwd, argv[1]),
                             build |-> FilesUnder(m.fs,
                                   build_dir(resolve(cwd, argv[1])))]
                       ELSE [ok |-> FALSE, skill_path |-> <<>>, build |-> {}])
    /\ pc' = "done"
    /\ UNCHANGED <<cwd, edits>>

\* the user adds a source file between invocations
AddSource(c) ==
    /\ edits < MaxEdits
    /\ Cardinality(Present(fs, cwd)) < MaxFiles
    /\ LET q == SkillRoot(cwd) \o c.path
           m == mkdir(fs, parent(q))
           w == write_file(m.fs, q, c.data)
       IN /\ ~exists(fs, q)
          /\ m.ok
          /\ w.ok
          /\ fs' = w.fs
    /\ edits' = edits + 1
    /\ pc' = "idle"
    /\ run' = NoRun
    /\ UNCHANGED <<cwd, hist>>

\* the user deletes a source file between invocations
DeleteSource(c) ==
    /\ edits < MaxEdits
    /\ LET q == SkillRoot(cwd) \o c.path
       IN /\ is_file(fs, q)
          /\ fs' = [p \in DOMAIN fs \ {q} |-> fs[p]]
    /\ edits' = edits + 1
    /\ pc' = "idle"
    /\ run' = NoRun
    /\ UNCHANGED <<cwd, hist>>

Next ==
    \/ \E argv \in Argvs, valid \in BOOLEAN : Run(argv, valid)
    \/ \E c \in CoreCandidates \cup {SkillMd} : AddSource(c)
    \/ \E c \in CoreCandidates \cup {SkillMd} : DeleteSource(c)

\* up to MaxRuns invocations with source edits in between
Spec == Init /\ [][Next]_vars

\* a single invocation on a tree drawn from every candidate
InitOnce ==
    /\ cwd \in Cwds
    /\ \E T \in Trees(Candidates) : fs = Plant(cwd, T)
    /\ pc = "idle"
    /\ run = NoRun
    /\ hist = <<>>
    /\ edits = 0

RunOnce(argv, valid) == hist = <<>> /\ Run(argv, valid)

NextOnce == \E argv \in Argvs, valid \in BOOLEAN : RunOnce(argv, valid)

SpecOnce == InitOnce /\ [][NextOnce]_vars

TypeOK ==
    /\ pc \in {"idle", "done"}
    /\ Len(hist) <= MaxRuns
    /\ edits <= MaxEdits

(* ------------------------------- properties ---------------------------- *)
\* an invocation that reached package_skill has finished
Done == pc = "done" /\ run.called

\* the files of directory d, as paths relative to d
RelFiles(f, d) == {relative_to(p, d) : p \in FilesUnder(f, d)}

\* the entries of the zip file at path a
EntriesOf(f, a) == f[a].data.entries

ExcludedComponents ==
    {"rules", ".git", "__pycache__", ".trae", "skill-creator",
     "upstream-src", "build"}

ExcludedNames ==
    {"feedback_logs.jsonl", ".gitignore", ".gitmodules", "package_skill.py",
     "init_skill.py", "quick_validate.py"}

\* the exclusion rules applied to a path
Excluded(p) ==
    \/ parts(p) \cap ExcludedComponents # {}
    \/ name(p[Len(p)]) \in ExcludedNames
    \/ p[Len(p)].suffix = ".skill"

\* C1: the preconditions are checked in the order exists, is a directory,
\* SKILL.md exists, Validator; the invocation stops at the first one that
\* fails, reports that one's error, returns the null result, and makes no
\* later check
C1_PreconditionOrder ==
    Done =>
      LET sp == run.skill_path
          f == run.pre
          r == run.r
      IN /\ ~exists(f, sp) =>
               /\ r.error = "folder not found"
               /\ r.checks = <<"exists">>
               /\ ~r.result.ok
               /\ r.verdict = "not asked"
         /\ (exists(f, sp) /\ ~is_dir(f, sp)) =>
               /\ r.error = "not a directory"
               /\ r.checks = <<"exists", "is_dir">>
               /\ ~r.result.ok
               /\ r.verdict = "not asked"
         /\ (is_dir(f, sp) /\ ~exists(f, sp \o <<SKILL_MD>>)) =>
               /\ r.error = "SKILL.md not found"
               /\ r.checks = <<"exists", "is_dir", "skill_md">>
               /\ ~r.result.ok
               /\ r.verdict = "not asked"
         /\ (is_dir(f, sp) /\ exists(f, sp \o <<SKILL_MD>>)) =>
               /\ r.checks = <<"exists", "is_dir", "skill_md", "validate">>
               /\ r.verdict = "invalid" =>
                     r.error = "validation failed" /\ ~r.result.ok
               /\ r.verdict = "valid" =>
                     r.error \notin {"folder not found", "not a directory",
                                     "SKILL.md not found", "validation failed"}

\* a path that is a regular file, so that the second check fails while the
\* third would fail too
C1_Witness ==
    /\ Done
    /\ is_file(run.pre, run.skill_path)
    /\ ~exists(run.pre, run.skill_path \o <<SKILL_MD>>)
    /\ run.r.error = "not a directory"

\* C2: a failed precondition or an invalid verdict leaves the filesystem
\* as it was: no archive, no output directory, build/ untouched
C2_FailureLeavesFilesystem ==
    Done =>
      LET sp == run.skill_path
          f == run.pre
      IN (\/ ~exists(f, sp)
          \/ ~is_dir(f, sp)
          \/ ~exists(f, sp \o <<SKILL_MD>>)
          \/ run.r.verdict = "invalid") => fs = run.pre

\* an invalid verdict on a skill folder that already has a build/ directory
\* with a file in it
C2_Witness ==
    /\ Done
    /\ run.r.verdict = "invalid"
    /\ FilesUnder(fs, run.skill_path \o <<BUILD>>) # {}
    /\ run.r.output_dir = None
    /\ ~run.r.result.ok

\* the archive entry paths with the leading skill-folder name stripped
Stripped(ents, sp) == {relative_to(e[1], <<sp[Len(sp)]>>) : e \in ents}

\* C3 as stated: after a successful invocation the files of build/ are the
\* archive's entries, skill-folder name stripped, plus package.json
C3_Original ==
    (Done /\ run.r.result.ok) =>
      LET sp == run.skill_path
          ents == EntriesOf(fs, run.r.result.path)
      IN /\ \A e \in ents : e[1][1] = sp[Len(sp)]
         /\ RelFiles(fs, sp \o <<BUILD>>) =
               Stripped(ents, sp) \cup {<<PACKAGE_JSON>>}

\* C3 amended: after a successful invocation the files of build/, other
\* than the archive itself when the output directory is build/, are the
\* archive's entries, skill-folder name stripped, plus package.json
C3_BuildMirrorsArchive ==
    (Done /\ run.r.result.ok) =>
      LET sp == run.skill_path
          ents == EntriesOf(fs, run.r.result.path)
      IN /\ \A e \in ents : e[1][1] = sp[Len(sp)]
         /\ RelFiles(fs, sp \o <<BUILD>>)
               \ (IF run.r.output_path = sp \o <<BUILD>>
                  THEN {relative_to(run.r.result.path, sp \o <<BUILD>>)}
                  ELSE {})
            = Stripped(ents, sp) \cup {<<PACKAGE_JSON>>}

\* a successful invocation whose archive holds a file of a subdirectory and
\* whose build/ held other files before
C3_Witness ==
    /\ Done
    /\ run.r.result.ok
    /\ \E e \in EntriesOf(fs, run.r.result.path) : Len(e[1]) > 2
    /\ FilesUnder(run.pre, run.skill_path \o <<BUILD>>) # {}

\* C4: no excluded file (by path component, by name, by the .skill
\* extension) is written to the archive or copied into build/, and every
\* entry written is a regular file
C4_ExcludedNeverPackaged ==
    Done =>
      LET sp == run.skill_path
      IN /\ \A e \in run.r.entries :
               /\ ~Excluded(relative_to(e[1], <<sp[Len(sp)]>>))
               /\ is_file(run.pre, parent(sp) \o e[1])
         /\ \A c \in run.r.copied :
               /\ ~Excluded(c)
               /\ is_file(run.pre, sp \o c)
               /\ is_file(fs, sp \o <<BUILD>> \o c)
         /\ run.r.result.ok =>
               EntriesOf(fs, run.r.result.path) = run.r.entries

\* a successful invocation on a tree with an excluded file and a directory,
\* which wrote something
C4_Witness ==
    /\ Done
    /\ run.r.result.ok
    /\ Cardinality(run.r.entries) >= 2
    /\ \E p \in FilesUnder(run.pre, run.skill_path) :
          Excluded(relative_to(p, run.skill_path))
    /\ \E p \in rglob(run.pre, run.skill_path) : is_dir(run.pre, p)

\* C5 as stated: after a successful invocation every file whose path
\* relative to the skill folder is not excluded is in the archive and in
\* build/, whatever the directories above the skill folder are called
C5_EveryFilePackaged ==
    (Done /\ run.r.result.ok) =>
      LET sp == run.skill_path
      IN \A p \in FilesUnder(run.pre, sp) :
            ~Excluded(relative_to(p, sp)) =>
               /\ \E e \in EntriesOf(fs, run.r.result.path) :
                     e[1] = relative_to(p, parent(sp))
               /\ is_file(fs, sp \o <<BUILD>> \o relative_to(p, sp))

\* C6 as stated: after a successful invocation every included file has its
\* source content both in the archive and in its copy in build/
C6_ContentPreserved ==
    (Done /\ run.r.result.ok) =>
      LET sp == run.skill_path
      IN \A e \in EntriesOf(fs, run.r.result.path) :
            /\ e[2] = run.pre[parent(sp) \o e[1]].data
            /\ fs[sp \o <<BUILD>> \o relative_to(e[1], <<sp[Len(sp)]>>)].data
                  = run.pre[parent(sp) \o e[1]].data


\* the last two invocations both succeeded, on the same skill folder
SecondSuccess ==
    /\ Done
    /\ Len(hist) >= 2
    /\ hist[Len(hist)].ok
    /\ hist[Len(hist) - 1].ok
    /\ hist[Len(hist)].skill_path = hist[Len(hist) - 1].skill_path

\* C7 as stated: after the second of two successive successful invocations
\* build/ holds exactly the files the second run selected plus
\* package.json, and nothing the first run left
C7_Original ==
    SecondSuccess =>
      LET sp == run.skill_path
          second == Stripped(EntriesOf(fs, run.r.result.path), sp)
                       \cup {<<PACKAGE_JSON>>}
      IN /\ RelFiles(fs, sp \o <<BUILD>>) = second
         /\ \A b \in hist[Len(hist) - 1].build :
               is_file(fs, b) => relative_to(b, sp \o <<BUILD>>) \in second

\* C7 amended: after the second of two successive successful invocations
\* build/ holds, besides the second run's own archive when its output
\* directory is build/, exactly the files the second run selected plus
\* package.json, and nothing else the first run left
C7_BuildRebuilt ==
    SecondSuccess =>
      LET sp == run.skill_path
          second == Stripped(EntriesOf(fs, run.r.result.path), sp)
                       \cup {<<PACKAGE_JSON>>}
          own == IF run.r.output_path = sp \o <<BUILD>>
                 THEN {run.r.result.path}
                 ELSE {}
      IN /\ FilesUnder(fs, sp \o <<BUILD>>) \ own
               = {sp \o <<BUILD>> \o q : q \in second}
         /\ \A b \in hist[Len(hist) - 1].build \ own :
               is_file(fs, b) => relative_to(b, sp \o <<BUILD>>) \in second

\* a second success after which a file the first run had copied is gone
C7_Witness ==
    /\ SecondSuccess
    /\ edits >= 1
    /\ \E b \in hist[Len(hist) - 1].build :
          /\ suffix(b) # ".skill"
          /\ ~exists(fs, b)

\* the version the claim names for a skill folder
ClaimedVersion(f, sp) ==
    LET pkg == sp \o <<PACKAGE_JSON>>
    IN IF /\ is_file(f, pkg)
          /\ IsObject(f[pkg].data.text)
          /\ "version" \in Keys(f[pkg].data.text)
       THEN ValueOf(f[pkg].data.text, "version")
       ELSE "1.0.0"

\* C8: once the preconditions hold, version discovery yields the version
\* field of a readable, parsable root package.json that has one and
\* "1.0.0" otherwise, the invocation goes on to the later stages, and the
\* archive is <output directory>/<skill-folder-name>-<version>.skill
C8_VersionNeverAborts ==
    (Done /\ is_dir(run.pre, run.skill_path)
          /\ exists(run.pre, run.skill_path \o <<SKILL_MD>>)
          /\ run.r.verdict = "valid") =>
      LET sp == run.skill_path
          r == run.r
          out == IF r.output_dir = None THEN cwd
                 ELSE resolve(cwd, r.output_dir)
          named == out \o <<N(name(sp[Len(sp)]) \o "-"
                                 \o ClaimedVersion(run.pre, sp), ".skill")>>
      IN /\ r.version = ClaimedVersion(run.pre, sp)
         /\ r.stage \in {"output", "build", "write", "done"}
         /\ ~r.raised => r.stage \in {"write", "done"} /\ r.archive = named
         /\ r.result.ok => r.result.path = named /\ is_file(fs, named)

\* a success on a skill folder whose package.json cannot be parsed
C8_Witness ==
    /\ Done
    /\ run.r.result.ok
    /\ is_file(run.pre, run.skill_path \o <<PACKAGE_JSON>>)
    /\ ~json_load(run.pre[run.skill_path \o <<PACKAGE_JSON>>].data).ok
    /\ run.r.version = "1.0.0"

\* C9 as stated: every invocation exits 0 exactly when package_skill
\* returned a path and 1 after a reported error, and no failure escapes
\* package_skill as an exception
C9_NoUnhandledFault ==
    pc = "done" =>
      /\ run.exit \in {0, 1}
      /\ ~run.called => run.exit = 1
      /\ run.called =>
            /\ ~run.r.raised
            /\ run.exit = 0 <=> run.r.result.ok
            /\ run.exit = 1 => run.r.error # "none"

\* the entries under the skill folder and outside build/ that the last
\* invocation created, changed or deleted
Touched ==
    LET sp == run.skill_path
    IN {p \in DOMAIN run.pre \cup DOMAIN fs :
          /\ IsPrefix(sp, p)
          /\ ~IsPrefix(sp \o <<BUILD>>, p)
          /\ ~(p \in DOMAIN run.pre /\ p \in DOMAIN fs /\ run.pre[p] = fs[p])}

\* C10 as stated: an invocation creates, changes or deletes nothing under
\* the skill folder outside build/, whatever the output directory
C10_Original == Done => Touched = {}

\* C10 amended: under the skill folder and outside build/ an invocation
\* deletes nothing and creates or changes nothing but the output directory
\* (with its missing parents) and the archive in it, when the output
\* directory lies there
C10_SkillFolderReadOnly ==
    Done =>
      \A p \in Touched :
         /\ p \in DOMAIN fs
         /\ \/ /\ p \notin DOMAIN run.pre
               /\ fs[p] = Dir
               /\ IsPrefix(p, run.r.output_path)
            \/ /\ p = run.r.archive
               /\ parent(p) = run.r.output_path

\* a success whose output directory was created inside the skill folder
C10_Witness ==
    /\ Done
    /\ run.r.result.ok
    /\ run.r.output_path = run.skill_path \o <<DIST>>
    /\ ~exists(run.pre, run.r.output_path)
    /\ Touched = {run.r.output_path, run.r.result.path}
====
